---- MODULE Spec2Model ----
(***************************************************************************)
(* Model of the contact-lookup gateway of src/3cx_api/main.py: the         *)
(* GET /contacts handler lookup_contact, its credential dependency         *)
(* get_current_credentials, the slowapi limiter that decorates it, the     *)
(* SQL text it executes and the reshaping of the rows it returns.          *)
(*                                                                         *)
(* Strings whose characters matter (phones, names, e-mails, the Number and *)
(* Email parameters) are sequences of one-character strings; None / SQL    *)
(* NULL is the value NULL below.                                           *)
(***************************************************************************)
EXTENDS Integers, Sequences, FiniteSets, TLC

VARIABLES
    db,        \* the Users table: a sequence of rows in the store's order
    storage,   \* limiter storage: address -> [count, expiry] of its window
    now,       \* the clock, in minutes
    received,  \* requests that arrived from each address since the start
    req,       \* the request handled last
    resp,      \* the response sent for it
    obs        \* what handling it did: comparison, session, queries

vars == <<db, storage, now, received, req, resp, obs>>

----------------------------------------------------------------------------
(* Values *)

NULL == <<"NULL">>

API_KEY == "your_default_api_key"
API_PASSWORD == "X"

PerMinute == 20
PerHour == 100
WindowMinutes == 1

Addresses == {"10.0.0.1", "10.0.0.2"}

(* Bounds of the model *)
MaxTime == 2
MaxOver == 2
MaxHourTime == 5
MaxNumberLen == 2
MaxPhoneLen == 3
MaxNameLen == 3

----------------------------------------------------------------------------
(* Python and SQL helpers *)

\* Python truthiness of an Optional[str]: None and "" are falsy.
Truthy(s) == s # NULL /\ s # <<>>

\* str.replace(' ', '') and SQL REPLACE(x, ' ', '') on a non-null string.
RemoveSpaces(s) == SelectSeq(s, LAMBDA c : c # " ")

\* SQL LIKE on non-null strings: '%' matches any run of characters, '_'
\* matches exactly one character, anything else matches itself.
RECURSIVE Like(_, _)
Like(s, pat) ==
    IF pat = <<>> THEN s = <<>>
    ELSE IF Head(pat) = "%"
         THEN Like(s, Tail(pat)) \/ (s # <<>> /\ Like(Tail(s), pat))
         ELSE /\ s # <<>>
              /\ (Head(pat) = "_" \/ Head(pat) = Head(s))
              /\ Like(Tail(s), Tail(pat))

\* SQL three-valued logic: "T", "F" and "U" (unknown).
Or3(x, y) ==
    IF x = "T" \/ y = "T" THEN "T"
    ELSE IF x = "F" /\ y = "F" THEN "F" ELSE "U"

And3(x, y) ==
    IF x = "F" \/ y = "F" THEN "F"
    ELSE IF x = "T" /\ y = "T" THEN "T" ELSE "U"

IsNotNull(x) == IF x = NULL THEN "F" ELSE "T"

SqlReplace(x) == IF x = NULL THEN NULL ELSE RemoveSpaces(x)

SqlLike(x, pat) ==
    IF x = NULL \/ pat = NULL THEN "U"
    ELSE IF Like(x, pat) THEN "T" ELSE "F"

SqlEq(x, y) ==
    IF x = NULL \/ y = NULL THEN "U"
    ELSE IF x = y THEN "T" ELSE "F"

\* The phone half of the WHERE clause.
PhoneClause(row, p) ==
    And3(IsNotNull(p.number),
         Or3(Or3(SqlLike(SqlReplace(row.HomePhone), p.like_pattern),
                 SqlLike(SqlReplace(row.WorkPhone), p.like_pattern)),
             SqlLike(SqlReplace(row.MobilePhone), p.like_pattern)))

\* The e-mail half of the WHERE clause.
EmailClause(row, p) ==
    And3(IsNotNull(p.email), SqlEq(row.EmailAddress, p.exact_email))

\* Mutant: the two halves are combined with AND.
WhereBoth(row, p) == And3(PhoneClause(row, p), EmailClause(row, p)) = "T"

\* A row is selected when the WHERE clause is true (not false, not unknown).
Where(row, p) == Or3(PhoneClause(row, p), EmailClause(row, p)) = "T"

\* The bound parameters built from Number and Email.
Parameters(Number, Email) ==
    [like_pattern |-> IF Truthy(Number)
                      THEN <<"%">> \o RemoveSpaces(Number) \o <<"%">>
                      ELSE NULL,
     number       |-> IF Truthy(Number) THEN Number ELSE NULL,
     exact_email  |-> IF Truthy(Email) THEN Email ELSE NULL,
     email        |-> IF Truthy(Email) THEN Email ELSE NULL]

\* db.execute(query, parameters).fetchall(): the selected rows, in the
\* store's order.
Execute(table, p) == SelectSeq(table, LAMBDA row : Where(row, p))

----------------------------------------------------------------------------
(* Response formatter *)

\* str.split(' '): cut at every single space; empty tokens are kept.
RECURSIVE Split(_)
Split(s) ==
    IF \A i \in 1..Len(s) : s[i] # " " THEN <<s>>
    ELSE LET i == CHOOSE k \in 1..Len(s) :
                      s[k] = " " /\ \A j \in 1..(k - 1) : s[j] # " "
         IN  <<SubSeq(s, 1, i - 1)>> \o Split(SubSeq(s, i + 1, Len(s)))

\* " ".join(parts)
RECURSIVE Join(_)
Join(parts) ==
    IF Len(parts) = 0 THEN <<>>
    ELSE IF Len(parts) = 1 THEN parts[1]
         ELSE parts[1] \o <<" ">> \o Join(Tail(parts))

\* x if x else ""  (also RealName or "")
OrEmpty(x) == IF Truthy(x) THEN x ELSE <<>>

first_name(row) ==
    LET name_parts == Split(OrEmpty(row.RealName))
    IN  IF Len(name_parts) > 0 THEN name_parts[1] ELSE <<>>

\* Mutant: only the second token is kept.
last_name_second(row) ==
    LET name_parts == Split(OrEmpty(row.RealName))
    IN  IF Len(name_parts) > 1 THEN name_parts[2] ELSE <<>>

last_name(row) ==
    LET name_parts == Split(OrEmpty(row.RealName))
    IN  IF Len(name_parts) > 1 THEN Join(Tail(name_parts)) ELSE <<>>

contact_data(row) ==
    [contactid     |-> row.id,
     firstname     |-> first_name(row),
     lastname      |-> last_name(row),
     company       |-> OrEmpty(row.Organization),
     email         |-> row.EmailAddress,
     phonebusiness |-> OrEmpty(row.WorkPhone),
     phonemobile   |-> OrEmpty(row.MobilePhone),
     phonehome     |-> OrEmpty(row.HomePhone)]

\* Mutant: the entries come out in reverse order.
FormatReversed(results) ==
    [i \in 1..Len(results) |-> contact_data(results[Len(results) + 1 - i])]

Format(results) == [i \in 1..Len(results) |-> contact_data(results[i])]

----------------------------------------------------------------------------
(* Auth gate and rate limiter *)

\* Mutant: either field matching is enough.
CredentialsOkEither(username, password) ==
    (username = API_KEY) \/ (password = API_PASSWORD)

\* secrets.compare_digest on both fields; both must match.
CredentialsOk(username, password) ==
    LET correct_username == (username = API_KEY)
        correct_password == (password = API_PASSWORD)
    IN  correct_username /\ correct_password

\* The window of an address is live until its expiry.
Live(a) == storage[a].expiry > now

\* One hit of the "20/minute" limit for the address: the first hit of a
\* window starts it, every hit is counted, also a rejected one.  It is the
\* only limit checked for /contacts: the route's own limit replaces the
\* limiter's default_limits, and no limiter middleware is installed that
\* would check them.
Hit(a) ==
    IF Live(a)
    THEN [count |-> storage[a].count + 1, expiry |-> storage[a].expiry]
    ELSE [count |-> 1, expiry |-> now + WindowMinutes]

WithinLimit(entry) == entry.count <= PerMinute

----------------------------------------------------------------------------
(* Responses *)

NoContacts == <<>>

Forbidden ==
    [status |-> 403, detail |-> "Could not validate credentials",
     contacts |-> NoContacts]

TooMany ==
    [status |-> 429, detail |-> "Rate limit exceeded: 20 per 1 minute",
     contacts |-> NoContacts]

BadRequest ==
    [status |-> 400, detail |-> "Either Number or Email must be provided",
     contacts |-> NoContacts]

DatabaseError ==
    [status |-> 500, detail |-> "Database error occurred.",
     contacts |-> NoContacts]

NotFound ==
    [status |-> 404, detail |-> "Contact not found", contacts |-> NoContacts]

Ok(results) == [status |-> 200, detail |-> "", contacts |-> Format(results)]

Idle == [status |-> 0, detail |-> "", contacts |-> NoContacts]

\* Mutant: only None counts as missing, not the empty string.
MissingBothNone(Number, Email) == Number = NULL /\ Email = NULL

\* The validator: if not Number and not Email.
MissingBoth(Number, Email) == ~Truthy(Number) /\ ~Truthy(Email)

\* Mutant: a failed query is retried once and the retry's rows are returned.
BodyRetry(Number, Email, fails) ==
    IF MissingBoth(Number, Email)
    THEN [resp |-> BadRequest, queries |-> <<>>, raised |-> FALSE,
          rows |-> <<>>]
    ELSE LET parameters == Parameters(Number, Email)
             results == Execute(db, parameters)
             queries == IF fails THEN <<parameters, parameters>>
                        ELSE <<parameters>>
         IN  IF Len(results) = 0
             THEN [resp |-> NotFound, queries |-> queries, raised |-> fails,
                   rows |-> results]
             ELSE [resp |-> Ok(results), queries |-> queries,
                   raised |-> fails, rows |-> results]

\* The body of lookup_contact: validation, one query, formatting.  fails
\* says whether db.execute / fetchall raises.  Yields the response, the
\* queries issued, whether the query raised and the rows the store returned.
Body(Number, Email, fails) ==
    IF MissingBoth(Number, Email)
    THEN [resp |-> BadRequest, queries |-> <<>>, raised |-> FALSE,
          rows |-> <<>>]
    ELSE LET parameters == Parameters(Number, Email)
             results == Execute(db, parameters)
         IN  IF fails
             THEN [resp |-> DatabaseError, queries |-> <<parameters>>,
                   raised |-> TRUE, rows |-> <<>>]
             ELSE IF Len(results) = 0
                  THEN [resp |-> NotFound, queries |-> <<parameters>>,
                        raised |-> FALSE, rows |-> results]
                  ELSE [resp |-> Ok(results), queries |-> <<parameters>>,
                        raised |-> FALSE, rows |-> results]

----------------------------------------------------------------------------
(* Inputs and stores *)

\* All strings over chars of length at most n.
RECURSIVE Strings(_, _)
Strings(chars, n) ==
    IF n = 0 THEN {<<>>}
    ELSE LET shorter == Strings(chars, n - 1)
         IN  shorter \cup {Append(s, c) : s \in shorter, c \in chars}

Row(id, name, work, mobile, home, email, org) ==
    [id |-> id, RealName |-> name, WorkPhone |-> work, MobilePhone |-> mobile,
     HomePhone |-> home, EmailAddress |-> email, Organization |-> org]

Mail == <<"a", "@", "b", ".", "c", "o", "m">>
MailPrefix == <<"a", "@", "b", ".", "c", "o">>
OtherMail == <<"z", "@", "b">>

Usernames == {API_KEY, "wrong_key"}
Passwords == {API_PASSWORD, "wrong_password"}

\* The store and the parameters of the request pipeline.
SampleUsers ==
    << Row(1, <<"J", " ", "Q", " ", "P">>, <<"5", " ", "1">>, NULL, NULL,
           NULL, NULL),
       Row(2, <<"M">>, NULL, <<"5", "7">>, <<>>, Mail, <<"o">>),
       Row(3, NULL, NULL, NULL, NULL, OtherMail, <<>>) >>

SampleNumbers == {NULL, <<>>, <<"5">>, <<"9">>}
SampleEmails == {NULL, <<>>, Mail, MailPrefix}

\* The stores and the parameters of the lookups.
PhoneChars == {"5", "1", " "}
NumberChars == {"5", " ", "%", "_"}
NameChars == {"a", "b", " "}

Phones == Strings(PhoneChars, MaxPhoneLen) \cup {NULL}
Numbers == Strings(NumberChars, MaxNumberLen) \cup {NULL}
Names == Strings(NameChars, MaxNameLen) \cup {NULL}
Emails == {NULL, Mail, MailPrefix}

SecondRow == Row(2, <<"M">>, NULL, <<"1", " ", "5">>, NULL, MailPrefix, <<"o">>)

\* Row 1 varies in its work phone, with a few settings of the other columns.
PhoneTables ==
    { << Row(1, <<"J", " ", "P">>, w, x[1], x[2], x[3], NULL), SecondRow >> :
        w \in Phones,
        x \in { <<NULL, NULL, NULL>>, <<(<<"1", " ">>), NULL, Mail>>,
                <<NULL, (<<"5">>), Mail>> } }

\* Row 1 varies in its name, with a few settings of the other columns.
NameTables ==
    { << Row(1, n, <<"5">>, NULL, NULL, x[1], x[2]), SecondRow >> :
        n \in Names,
        x \in { <<NULL, NULL>>, <<Mail, (<<>>)>>, <<Mail, (<<"o">>)>> } }

----------------------------------------------------------------------------
(* State machine *)

NoRequest ==
    [addr |-> "", username |-> "", password |-> "", Number |-> NULL,
     Email |-> NULL]

NoObs ==
    [compared |-> FALSE, session |-> FALSE, counted |-> FALSE,
     raised |-> FALSE, queries |-> <<>>, rows |-> <<>>]

InitCommon ==
    /\ storage = [a \in Addresses |-> [count |-> 0, expiry |-> 0]]
    /\ now = 0
    /\ received = [a \in Addresses |-> 0]
    /\ req = NoRequest
    /\ resp = Idle
    /\ obs = NoObs

Init == db = SampleUsers /\ InitCommon

InitLookup == db \in PhoneTables \cup NameTables /\ InitCommon

\* One GET /contacts request, as the framework runs it: the Security and
\* Depends parameters of the endpoint are resolved first (credentials, then
\* the session); the callable registered with app.get is the limiter's
\* wrapper, which counts the hit and only then runs the body.
Handle(a, username, password, Number, Email, fails) ==
    LET entry == Hit(a)
        body == Body(Number, Email, fails)
    IN  /\ req' = [addr |-> a, username |-> username, password |-> password,
                   Number |-> Number, Email |-> Email]
        /\ IF ~CredentialsOk(username, password)
           THEN /\ resp' = Forbidden
                /\ obs' = [NoObs EXCEPT !.compared = TRUE]
                /\ UNCHANGED storage
           ELSE /\ storage' = [storage EXCEPT ![a] = entry]
                /\ IF ~WithinLimit(entry)
                   THEN /\ resp' = TooMany
                        /\ obs' = [NoObs EXCEPT !.compared = TRUE,
                                                !.session = TRUE,
                                                !.counted = TRUE]
                   ELSE /\ resp' = body.resp
                        /\ obs' = [compared |-> TRUE, session |-> TRUE,
                                   counted |-> TRUE,
                                   raised |-> body.raised,
                                   queries |-> body.queries,
                                   rows |-> body.rows]
        /\ UNCHANGED <<db, now>>

\* The storage counts without bound; the model stops MaxOver past the limit.
CanCount(a) == Live(a) => storage[a].count < PerMinute + MaxOver

LookupContact(a, username, password, Number, Email, fails) ==
    /\ CanCount(a)
    /\ Handle(a, username, password, Number, Email, fails)
    /\ UNCHANGED received

\* A minute passes; windows that reached their expiry are dropped.
Advance(limit) ==
    /\ now < limit
    /\ now' = now + 1
    /\ storage' = [a \in Addresses |->
                     IF storage[a].expiry > now + 1 THEN storage[a]
                     ELSE [count |-> 0, expiry |-> 0]]
    /\ UNCHANGED <<db, received, req, resp, obs>>

Tick == Advance(MaxTime)

\* The request pipeline: one client, every kind of request.
Client == "10.0.0.1"

Next ==
    \/ \E u \in Usernames, p \in Passwords, n \in SampleNumbers,
          e \in SampleEmails, f \in BOOLEAN :
          LookupContact(Client, u, p, n, e, f)
    \/ Tick

Spec == Init /\ [][Next]_vars

\* The limiter: every client, good and bad credentials, one lookup.
LimitedLookup(a, username, password) ==
    LookupContact(a, username, password, <<"5">>, NULL, FALSE)

NextLimiter ==
    \/ \E a \in Addresses, u \in Usernames, p \in Passwords :
          LimitedLookup(a, u, p)
    \/ Tick

SpecLimiter == Init /\ [][NextLimiter]_vars

\* One authenticated lookup against each store.
Lookup(Number, Email) ==
    /\ resp = Idle
    /\ LookupContact(Client, API_KEY, API_PASSWORD, Number, Email, FALSE)

NextLookup == \E n \in Numbers, e \in Emails : Lookup(n, e)

SpecLookup == InitLookup /\ [][NextLookup]_vars

\* One client that sends authenticated lookups for several minutes; its
\* arrivals are counted.
MeteredLookup(a) ==
    /\ CanCount(a)
    /\ received[a] <= PerHour + MaxOver
    /\ Handle(a, API_KEY, API_PASSWORD, <<"5">>, NULL, FALSE)
    /\ received' = [received EXCEPT ![a] = @ + 1]

TickHour == Advance(MaxHourTime)

NextHour == MeteredLookup(Client) \/ TickHour

SpecHour == Init /\ [][NextHour]_vars

----------------------------------------------------------------------------
(* Properties *)

Handled == req # NoRequest

ValidCredentials == req.username = API_KEY /\ req.password = API_PASSWORD

\* The last request got past the auth gate and the rate limiter.
Passed == Handled /\ obs.counted /\ resp.status # 429

Absent(x) == x = NULL \/ x = <<>>

\* C1: the rate limiter runs before the auth gate.  Every request from an
\* address is counted against that address's window, whatever its
\* credentials; and once the 20 of the current window are used up, the next
\* request in that window is answered 429 with no credential comparison, no
\* session and no query.
C1_LimiterBeforeAuth ==
    [][ now' = now =>
          LET a == req'.addr
              usedUp == Live(a) /\ storage[a].count >= PerMinute
          IN  /\ storage'[a] = Hit(a)
              /\ usedUp => /\ resp'.status = 429
                           /\ ~obs'.compared
                           /\ ~obs'.session
                           /\ obs'.queries = <<>> ]_vars

\* C2: a request whose username or password (or both) is wrong is answered
\* 403 "Could not validate credentials", the same response in all three
\* cases, and no query is executed for it; a request gets past the auth gate
\* only with both fields right.
C2_InvalidCredentialsForbidden ==
    Handled =>
        /\ ~ValidCredentials => resp = Forbidden /\ obs.queries = <<>>
        /\ (obs.session \/ resp.status # 403) => ValidCredentials

C2_Witness ==
    /\ req.username = API_KEY
    /\ req.password # API_PASSWORD
    /\ resp.status = 403
    /\ Live(req.addr)
    /\ storage[req.addr].count > 0

\* C3: among the requests that pass the limiter and the auth gate, the
\* answer is 400 exactly when Number and Email are both absent or empty; a
\* 400 request executes no query; any other request reaches the executor
\* with the parameters that are present, an absent or empty one bound as
\* NULL.
C3_BadRequestIffBothMissing ==
    Passed =>
        /\ resp.status = 400 <=> (Absent(req.Number) /\ Absent(req.Email))
        /\ resp.status = 400 => obs.queries = <<>>
        /\ resp.status # 400 =>
             /\ Len(obs.queries) = 1
             /\ obs.queries[1].number =
                    (IF Absent(req.Number) THEN NULL ELSE req.Number)
             /\ obs.queries[1].email =
                    (IF Absent(req.Email) THEN NULL ELSE req.Email)
             /\ obs.queries[1].exact_email = obs.queries[1].email
             /\ obs.queries[1].like_pattern = NULL <=> Absent(req.Number)

C3_Witness ==
    /\ Passed
    /\ req.Number = <<>>
    /\ req.Email = <<>>
    /\ resp.status = 400

\* C6: for a request that passed the limiter, the auth gate and the
\* validator and whose query succeeded, the answer is 404 exactly when the
\* store returned no row, and otherwise 200 with one entry per returned row,
\* in the store's order; no 200 response has an empty contacts list.
C6_NotFoundIffNoRows ==
    /\ (Passed /\ Len(obs.queries) = 1 /\ ~obs.raised) =>
          /\ resp.status = 404 <=> Len(obs.rows) = 0
          /\ Len(obs.rows) > 0 =>
                /\ resp.status = 200
                /\ Len(resp.contacts) = Len(obs.rows)
                /\ \A i \in 1..Len(obs.rows) :
                      resp.contacts[i].contactid = obs.rows[i].id
          /\ \A i \in 1..Len(obs.rows) : \E j \in 1..Len(db) :
                /\ db[j] = obs.rows[i]
                /\ \A k \in 1..(i - 1) : \E l \in 1..(j - 1) :
                      db[l] = obs.rows[k]
    /\ resp.status = 200 => Len(resp.contacts) > 0

C6_Witness ==
    /\ Passed
    /\ resp.status = 200
    /\ Len(obs.rows) = 2
    /\ resp.contacts[1].contactid = 1
    /\ resp.contacts[2].contactid = 2

\* C7: a request that reaches the executor issues exactly one query; when
\* the query raises, the answer is 500 "Database error occurred.", there is
\* no second query and no contact entry is returned.
C7_OneQueryNoRetry ==
    /\ (Passed /\ resp.status # 400) => Len(obs.queries) = 1
    /\ Len(obs.queries) <= 1
    /\ obs.raised =>
          /\ resp.status = 500
          /\ resp.detail = "Database error occurred."
          /\ resp.contacts = <<>>
          /\ Len(obs.queries) = 1

C7_Witness ==
    /\ Passed
    /\ obs.raised
    /\ resp.status = 500
    /\ req.Number = <<"5">>

\* t is a contiguous substring of s.
Contains(s, t) ==
    \E i \in 0..(Len(s) - Len(t)) : SubSeq(s, i + 1, i + Len(t)) = t

\* One of the three phone columns is non-null and, spaces removed, contains
\* the Number, spaces removed.
PhoneContains(row, Number) ==
    \E col \in {row.WorkPhone, row.MobilePhone, row.HomePhone} :
        col # NULL /\ Contains(RemoveSpaces(col), RemoveSpaces(Number))

Rows(seq) == {seq[i] : i \in 1..Len(seq)}

\* The last request ran its query and the query succeeded.
Answered == Passed /\ Len(obs.queries) = 1 /\ ~obs.raised

\* C4: when Number is supplied (and Email is not), a contact is returned
\* if and only if one of its three phone columns is non-null and, spaces
\* removed, contains the space-stripped Number as a contiguous substring;
\* for every Number, '%' and '_' and all-space Numbers included.
C4_PhoneSubstringMatch ==
    (Answered /\ Truthy(req.Number) /\ Absent(req.Email)) =>
        \A row \in Rows(db) :
            row \in Rows(obs.rows) <=> PhoneContains(row, req.Number)

\* The rows a lookup by this Number alone returns.
PhoneMatches ==
    IF Truthy(req.Number)
    THEN Rows(Execute(db, Parameters(req.Number, NULL)))
    ELSE {}

\* The rows whose e-mail column equals the Email.
EmailMatches ==
    IF Truthy(req.Email)
    THEN {row \in Rows(db) : row.EmailAddress = req.Email}
    ELSE {}

\* C5: the rows returned are exactly the union of the phone matches (only
\* when Number is supplied) and the rows whose e-mail column equals Email
\* (only when Email is supplied): either predicate suffices, an absent one
\* contributes nothing, and a stored e-mail of which Email is a proper
\* prefix is not matched by it.
C5_UnionOfPredicates ==
    Answered =>
        /\ Rows(obs.rows) = PhoneMatches \cup EmailMatches
        /\ \A row \in Rows(obs.rows) \ PhoneMatches :
              row.EmailAddress = req.Email

C5_Witness ==
    /\ Answered
    /\ Truthy(req.Number)
    /\ req.Email = MailPrefix
    /\ Len(obs.rows) = 2
    /\ Cardinality(PhoneMatches) = 1
    /\ Cardinality(EmailMatches) = 1
    /\ PhoneMatches \cap EmailMatches = {}
    /\ db[1].EmailAddress = Mail

\* C8: in a 200 response, every field of every entry whose source column
\* is null is the empty string, never null.
C8_NullRendersEmpty ==
    resp.status = 200 =>
        \A i \in 1..Len(resp.contacts) :
            LET c == resp.contacts[i]
                r == obs.rows[i]
            IN  /\ r.RealName = NULL => c.firstname = <<>> /\ c.lastname = <<>>
                /\ r.Organization = NULL => c.company = <<>>
                /\ r.EmailAddress = NULL => c.email = <<>>
                /\ r.WorkPhone = NULL => c.phonebusiness = <<>>
                /\ r.MobilePhone = NULL => c.phonemobile = <<>>
                /\ r.HomePhone = NULL => c.phonehome = <<>>
                /\ NULL \notin {c.firstname, c.lastname, c.company, c.email,
                                c.phonebusiness, c.phonemobile, c.phonehome}

HasSpace(s) == \E i \in 1..Len(s) : s[i] = " "

\* C9: firstname is the text before the first space and has no space in
\* it, lastname is the rest after that space; a name without a space gives
\* lastname ""; a null or empty name gives "" and ""; and when the name has
\* a space, firstname + " " + lastname is the name again.
C9_NameSplit ==
    resp.status = 200 =>
        \A i \in 1..Len(resp.contacts) :
            LET name == obs.rows[i].RealName
                first == resp.contacts[i].firstname
                last == resp.contacts[i].lastname
            IN  /\ ~HasSpace(first)
                /\ Absent(name) => first = <<>> /\ last = <<>>
                /\ (~Absent(name) /\ ~HasSpace(name)) =>
                      first = name /\ last = <<>>
                /\ (~Absent(name) /\ HasSpace(name)) =>
                      /\ first \o <<" ">> \o last = name
                      /\ \E k \in 1..Len(name) :
                            /\ name[k] = " "
                            /\ first = SubSeq(name, 1, k - 1)
                            /\ last = SubSeq(name, k + 1, Len(name))

C9_Witness ==
    /\ resp.status = 200
    /\ obs.rows[1].RealName = <<" ", "a", " ">>
    /\ resp.contacts[1].firstname = <<>>
    /\ resp.contacts[1].lastname = <<"a", " ">>

\* C10: requests are counted per address over two windows and a request
\* is rejected with 429 when its address has exceeded 20 in the minute or
\* 100 in the hour; a request from one address never touches the count of
\* another address.  (The clock stays below 60 minutes, so every request
\* received so far falls in the current hour.)
C10_EitherWindowRejects ==
    [][ (now' = now /\ now < 60) =>
          LET a == req'.addr
          IN  /\ (storage'[a].count > PerMinute \/ received'[a] > PerHour)
                    => resp'.status = 429
              /\ \A b \in Addresses \ {a} : storage'[b] = storage[b] ]_vars

====
